---------------------------- MODULE Spec2Model ----------------------------
(***************************************************************************)
(* Model of src/app.py (Industry Buy Pressure Dashboard): snapshot file    *)
(* resolution, workbook normalisation, buy-pressure classification, the    *)
(* industry x stock matrix and the script's load / halt control flow.      *)
(*                                                                         *)
(* File names are sequences of one-character strings, so that glob and the *)
(* regular expressions of the source are computed character by character.  *)
(* Buy pressure is a fixed-point number in units of 1/10000 (0.667 is     *)
(* 6670), or the float NaN.                                                *)
(***************************************************************************)
EXTENDS Integers, Sequences, FiniteSets, TLC

VARIABLES
    dir,        \* names of the files present in DATA_DIR
    found,      \* outcome of the last find_latest_file call
    lastAdded,  \* the file that arrived last in DATA_DIR (<<>> if none yet)
    fresh,      \* TRUE when no file has arrived since DATA_DIR was last listed
    bp,         \* classifier input (buy_pressure)
    status,     \* classifier outputs: [sorted |-> ..., display |-> ...]
    df_screening_display,    \* stock rows handed to the tabs
    df_industry_display,     \* industry rows handed to the tabs
    sort_by,                 \* sort column of create_industry_table
    max_stocks_per_industry, \* sidebar setting read by create_industry_table
    matrix,     \* groups emitted by create_industry_table ([done, groups])
    book1,      \* workbook held by the industry snapshot files
    book2,      \* workbook held by the screening snapshot files
    cache,      \* st.cache_data entry of load_data (NotLoaded when empty)
    page,       \* what the last run of the script did
    last_run,   \* the last run: served from the cache or not, and DATA_DIR then
    snapshot_name,  \* argument of get_data_date_from_filename
    date_result,    \* its outcome ([kind, text]; kind "" before the call)
    population,     \* df_all_industry handed to the sector rollup
    sector_map,     \* industry_sector_map handed to the sector rollup
    rollup,         \* what the sector rollup emitted ([done, kind, sectors])
    check_rows,     \* industries of df_check handed to render_check_tab_with_fs
    check_stocks,   \* df_screening_display handed to render_check_tab_with_fs
    crosstab        \* the table it rendered ([done, kind, columns, rows])

resolverVars == <<dir, found, lastAdded, fresh>>
classifierVars == <<bp, status>>
matrixVars ==
    <<df_screening_display, df_industry_display, sort_by,
      max_stocks_per_industry, matrix>>
scriptVars == <<book1, book2, cache, page, last_run>>
dateVars == <<snapshot_name, date_result>>
rollupVars == <<population, sector_map, rollup>>
crossVars == <<check_rows, check_stocks, crosstab>>
auxVars == <<dateVars, rollupVars, crossVars>>
vars == <<resolverVars, classifierVars, matrixVars, scriptVars, auxVars>>

-----------------------------------------------------------------------------
(* Characters and strings                                                  *)

Digits == {"0", "1", "2", "3", "4", "5", "6", "7", "8", "9"}

\* the characters of the model in code point order
CodePointOrder ==
    <<" ","-",".","/","0","1","2","3","4","5","6","7","8","9","A","B","C",
      "D","E","F","G","H","I","J","K","L","M","N","O","P","Q","R","S","T",
      "U","V","W","X","Y","Z","_","a","b","c","d","e","f","g","h","i","j",
      "k","l","m","n","o","p","q","r","s","t","u","v","w","x","y","z">>

\* rank of c in code point order (str comparison compares code points)
CharCode(c) == CHOOSE i \in 1 .. Len(CodePointOrder) : CodePointOrder[i] = c

\* Python's s < t on strings: lexicographic by code point
RECURSIVE StrLess(_, _)
StrLess(s, t) ==
    IF t = <<>> THEN FALSE
    ELSE IF s = <<>> THEN TRUE
    ELSE IF Head(s) = Head(t) THEN StrLess(Tail(s), Tail(t))
    ELSE CharCode(Head(s)) < CharCode(Head(t))

StartsWith(s, p) == Len(s) >= Len(p) /\ SubSeq(s, 1, Len(p)) = p
EndsWith(s, p) == Len(s) >= Len(p) /\ SubSeq(s, Len(s) - Len(p) + 1, Len(s)) = p

XLSX == <<".", "x", "l", "s", "x">>

PREFIX_INDUSTRY ==
    <<"i","n","d","u","s","t","r","y","_","e","t","f","_",
      "m","u","l","t","i","c","o","n","d","i","t","i","o","n","_">>
PREFIX_SCREENING ==
    <<"i","n","t","e","g","r","a","t","e","d","_",
      "s","c","r","e","e","n","i","n","g","_">>
Prefixes == {PREFIX_INDUSTRY, PREFIX_SCREENING}

-----------------------------------------------------------------------------
(* find_latest_file                                                        *)

\* glob.glob(os.path.join(directory, f"{prefix}*.xlsx")): "*" matches any
\* run of characters, the empty one included
GlobMatches(name, prefix) ==
    /\ Len(name) >= Len(prefix) + Len(XLSX)
    /\ StartsWith(name, prefix)
    /\ EndsWith(name, XLSX)

\* the length of the text (\d{8}_\d{6})\.xlsx$ matches
DateTokenLen == 15

\* date_pattern.search(filename): the group (\d{8}_\d{6}) when the name ends
\* with 8 digits, "_", 6 digits, ".xlsx"; <<>> when there is no match
DateToken(name) ==
    LET n == Len(name)
        s == n - Len(XLSX) - DateTokenLen + 1
    IN  IF /\ EndsWith(name, XLSX)
           /\ s >= 1
           /\ \A i \in s .. s + 7 : name[i] \in Digits
           /\ name[s + 8] = "_"
           /\ \A i \in s + 9 .. s + 14 : name[i] \in Digits
        THEN SubSeq(name, s, s + 14)
        ELSE <<>>

MatchedFiles(files, prefix) == {f \in files : GlobMatches(f, prefix)}

FilesWithDates(files, prefix) ==
    {f \in MatchedFiles(files, prefix) : DateToken(f) # <<>>}

Outcome(k, p, m) == [kind |-> k, path |-> p, msg |-> m]

\* find_latest_file with the sort left ascending (reverse=True dropped)
SortDropsReverse(files, prefix) ==
    LET c == FilesWithDates(files, prefix)
    IN  IF MatchedFiles(files, prefix) = {}
        THEN {Outcome("FileNotFoundError", <<>>, "no_match")}
        ELSE IF c = {}
        THEN {Outcome("FileNotFoundError", <<>>, "no_date_pattern")}
        ELSE {Outcome("ok", f, "") :
                f \in {g \in c : \A h \in c : ~StrLess(DateToken(h), DateToken(g))}}

\* find_latest_file with the first emptiness test dropped
SameErrorForBoth(files, prefix) ==
    LET c == FilesWithDates(files, prefix)
    IN  IF c = {}
        THEN {Outcome("FileNotFoundError", <<>>, "no_match")}
        ELSE {Outcome("ok", f, "") :
                f \in {g \in c : \A h \in c : ~StrLess(DateToken(g), DateToken(h))}}

\* The set of outcomes of find_latest_file(DATA_DIR, prefix).  glob lists the
\* directory in no particular order and list.sort is stable, so among files
\* with the greatest token the first one listed is returned: any of them.
find_latest_file(files, prefix) ==
    LET c == FilesWithDates(files, prefix)
    IN  IF MatchedFiles(files, prefix) = {}
        THEN {Outcome("FileNotFoundError", <<>>, "no_match")}
        ELSE IF c = {}
        THEN {Outcome("FileNotFoundError", <<>>, "no_date_pattern")}
        ELSE {Outcome("ok", f, "") :
                f \in {g \in c : \A h \in c : ~StrLess(DateToken(g), DateToken(h))}}

-----------------------------------------------------------------------------
(* Buy pressure classification                                             *)

Num(v) == [nan |-> FALSE, v |-> v]
NaN == [nan |-> TRUE, v |-> 0]

\* float comparison: every comparison with NaN is False
Gt(x, t) == ~x.nan /\ x.v > t
Lt(x, t) == ~x.nan /\ x.v < t
Ge(x, t) == ~x.nan /\ x.v >= t

\* the literals 0.667, 0.60, 0.55, 0.333, 0.45 in units of 1/10000
T_EXTREME == 6670
T_STRONG == 6000
T_BUY == 5500
T_WEAK == 3330
T_CAUTION == 4500

\* get_buy_pressure_status with the first test written >= 0.667
status_extreme_inclusive(buy_pressure) ==
    IF Ge(buy_pressure, T_EXTREME) THEN "3 EXTREME"
    ELSE IF Gt(buy_pressure, T_STRONG) THEN "2 STRONG"
    ELSE IF Gt(buy_pressure, T_BUY) THEN "1 BUY"
    ELSE IF Lt(buy_pressure, T_WEAK) THEN "0a WEAK"
    ELSE IF Lt(buy_pressure, T_CAUTION) THEN "0b CAUTION"
    ELSE "0c NEUTRAL"

get_buy_pressure_status(buy_pressure) ==
    IF Gt(buy_pressure, T_EXTREME) THEN "3 EXTREME"
    ELSE IF Gt(buy_pressure, T_STRONG) THEN "2 STRONG"
    ELSE IF Gt(buy_pressure, T_BUY) THEN "1 BUY"
    ELSE IF Lt(buy_pressure, T_WEAK) THEN "0a WEAK"
    ELSE IF Lt(buy_pressure, T_CAUTION) THEN "0b CAUTION"
    ELSE "0c NEUTRAL"

get_buy_pressure_status_display(buy_pressure) ==
    IF Gt(buy_pressure, T_EXTREME) THEN "EXTREME"
    ELSE IF Gt(buy_pressure, T_STRONG) THEN "STRONG"
    ELSE IF Gt(buy_pressure, T_BUY) THEN "BUY"
    ELSE IF Lt(buy_pressure, T_WEAK) THEN "WEAK"
    ELSE IF Lt(buy_pressure, T_CAUTION) THEN "CAUTION"
    ELSE "NEUTRAL"

\* re.sub(r'^\d+[a-z]?\s+', '', status_raw): the label without its sort prefix
StatusDisplay(status_raw) ==
    CASE status_raw = "3 EXTREME" -> "EXTREME"
      [] status_raw = "2 STRONG" -> "STRONG"
      [] status_raw = "1 BUY" -> "BUY"
      [] status_raw = "0a WEAK" -> "WEAK"
      [] status_raw = "0b CAUTION" -> "CAUTION"
      [] status_raw = "0c NEUTRAL" -> "NEUTRAL"
      [] OTHER -> status_raw

-----------------------------------------------------------------------------
(* DataFrame helpers and create_industry_table                             *)

\* df[df[col] == value]: the rows kept in their order
RowsWhere(df, col, value) == SelectSeq(df, LAMBDA r : r[col] = value)

\* df.head(n)
DfHead(df, n) == SubSeq(df, 1, IF n < Len(df) THEN n ELSE Len(df))

\* The outcomes of df.sort_values(col, ascending=False).  No kind is passed,
\* so pandas sorts with kind='quicksort' (numpy's introsort, or its SIMD
\* sort), which is not stable: rows with equal keys come out in an order
\* that depends on the build and on the number of rows.
SortValuesDesc(df, col) ==
    LET n == Len(df)
        ranks == {p \in Permutations(1 .. n) :
                    \A i \in 1 .. n - 1 : df[p[i]][col] >= df[p[i + 1]][col]}
    IN  {[i \in 1 .. n |-> df[p[i]]] : p \in ranks}

Group(industry_row, stocks_in_industry) ==
    [Industry |-> industry_row.Industry,
     RS_Rating |-> industry_row.RS_Rating,
     stocks |-> stocks_in_industry]

\* lines 326-331 without the test of an empty group
EmitsEmptyGroups(df_screening_disp, industry_row, by, max_stocks) ==
    {<<Group(industry_row, DfHead(sorted, max_stocks))>> :
        sorted \in SortValuesDesc(
            RowsWhere(df_screening_disp, "Industry", industry_row.Industry), by)}

\* lines 326-331 for one industry row: the groups it can emit
\* (<<>> when the industry has no stock: continue)
StocksInIndustry(df_screening_disp, industry_row, by, max_stocks) ==
    {IF Len(sorted) = 0 THEN <<>>
     ELSE <<Group(industry_row, DfHead(sorted, max_stocks))>> :
        sorted \in SortValuesDesc(
            RowsWhere(df_screening_disp, "Industry", industry_row.Industry), by)}

\* the loop of lines 321-331 over the sorted industry rows
RECURSIVE IndustryLoop(_, _, _, _)
IndustryLoop(df_screening_disp, df_industry_sorted, by, max_stocks) ==
    IF df_industry_sorted = <<>> THEN {<<>>}
    ELSE {g \o rest :
            g \in StocksInIndustry(df_screening_disp, Head(df_industry_sorted),
                                   by, max_stocks),
            rest \in IndustryLoop(df_screening_disp, Tail(df_industry_sorted),
                                  by, max_stocks)}

\* the sequences of groups create_industry_table can emit
create_industry_table(df_screening_disp, df_industry_disp, by, max_stocks) ==
    UNION {IndustryLoop(df_screening_disp, df_industry_sorted, by, max_stocks) :
             df_industry_sorted \in SortValuesDesc(df_industry_disp, "RS_Rating")}

-----------------------------------------------------------------------------
(* Workbooks: sheets are grids of cells, read the way pd.read_excel does   *)

\* a cell as openpyxl / pandas hand it over: text, a number or nothing (NaN)
Txt(s) == [t |-> "str", s |-> s, v |-> 0]
NumCell(v) == [t |-> "num", s |-> <<>>, v |-> v]
Blank == [t |-> "nan", s |-> <<>>, v |-> 0]

L_Industry == Txt(<<"I","n","d","u","s","t","r","y">>)
L_RS_Rating == Txt(<<"R","S","_","R","a","t","i","n","g">>)
L_Buy_Pressure == Txt(<<"B","u","y","_","P","r","e","s","s","u","r","e">>)
L_Symbol == Txt(<<"S","y","m","b","o","l">>)
L_Technical_Score == Txt(<<"T","e","c","h","n","i","c","a","l","_","S","c","o","r","e">>)
L_Screening_Score == Txt(<<"S","c","r","e","e","n","i","n","g","_","S","c","o","r","e">>)
L_Company_Name == Txt(<<"C","o","m","p","a","n","y"," ","N","a","m","e">>)
L_Sector == Txt(<<"S","e","c","t","o","r">>)

Range(f) == {f[i] : i \in DOMAIN f}

\* pd.read_excel(path, sheet_name=..., skiprows=k): the first row left is
\* the header, the rows after it are the data; an empty sheet has no columns
ReadExcel(grid, skiprows) ==
    IF Len(grid) <= skiprows
    THEN [columns |-> <<>>, rows |-> <<>>]
    ELSE [columns |-> grid[skiprows + 1],
          rows |-> SubSeq(grid, skiprows + 2, Len(grid))]

\* 'name' in df.columns
HasColumn(df, label) == \E i \in 1 .. Len(df.columns) : df.columns[i] = label

\* position of the column df[name] reads
ColIndex(df, label) ==
    CHOOSE i \in 1 .. Len(df.columns) :
        /\ df.columns[i] = label
        /\ \A j \in 1 .. i - 1 : df.columns[j] # label

Column(df, label) == [k \in 1 .. Len(df.rows) |-> df.rows[k][ColIndex(df, label)]]

Raised(kind) == [kind |-> kind, df |-> [columns |-> <<>>, rows |-> <<>>]]
Read(df) == [kind |-> "ok", df |-> df]

\* lines 152-161: the header is looked for in the first column of the data
PromoteHeaderRow(grid, df_raw) ==
    LET industry_matches ==
            {k \in 1 .. Len(df_raw.rows) : df_raw.rows[k][1] = L_Industry}
    IN  IF industry_matches = {} THEN Raised("ValueError")
        ELSE LET header_row ==
                     (CHOOSE k \in industry_matches :
                         \A j \in industry_matches : k <= j) - 1
                 df == ReadExcel(grid, header_row)
             IN  Read([columns |-> df.rows[1], rows |-> Tail(df.rows)])

\* lines 141-171: the located table, or the error raised.  df_raw.iloc[:, 0]
\* raises IndexError on a frame without columns.
LocateIndustryTable(wb) ==
    IF "Multi_Condition_Passed" \in Range(wb.sheet_names)
    THEN LET grid == wb.sheets["Multi_Condition_Passed"]
             df_raw == ReadExcel(grid, 0)
         IN  IF HasColumn(df_raw, L_Industry) THEN Read(df_raw)
             ELSE IF Len(df_raw.columns) = 0 THEN Raised("IndexError")
             ELSE PromoteHeaderRow(grid, df_raw)
    ELSE LET df_raw == ReadExcel(wb.sheets[wb.sheet_names[1]], 0)
         IN  IF HasColumn(df_raw, L_Industry) THEN Read(df_raw)
             ELSE Raised("ValueError")

\* float(text) for the texts made of decimal digits
RECURSIVE DigitsValue(_)
DigitsValue(s) ==
    IF s = <<>> THEN 0
    ELSE 10 * DigitsValue(SubSeq(s, 1, Len(s) - 1)) + (CharCode(s[Len(s)]) - CharCode("0"))

\* pd.to_numeric(column, errors='coerce') on one cell: numbers stay, text
\* that reads as a number is parsed, anything else becomes NaN
ToNumeric(cell) ==
    IF cell.t = "num" THEN Num(cell.v)
    ELSE IF cell.t = "str" /\ cell.s # <<>> /\ \A i \in 1 .. Len(cell.s) : cell.s[i] \in Digits
    THEN Num(DigitsValue(cell.s))
    ELSE NaN

IndustryRecord(df, k) ==
    [Industry |-> Column(df, L_Industry)[k],
     RS_Rating |-> ToNumeric(Column(df, L_RS_Rating)[k]),
     Buy_Pressure |-> ToNumeric(Column(df, L_Buy_Pressure)[k])]

\* df.dropna() over the three columns kept
HasNa(r) == r.Industry.t = "nan" \/ r.RS_Rating.nan \/ r.Buy_Pressure.nan

\* dropna(subset=['RS_Rating', 'Buy_Pressure'])
HasNaInNumbers(r) == r.RS_Rating.nan \/ r.Buy_Pressure.nan

\* lines 173-176 with the dropna restricted to the two numeric columns
QualifyingDropsNumbersOnly(df) ==
    IF ~(HasColumn(df, L_Industry) /\ HasColumn(df, L_RS_Rating)
            /\ HasColumn(df, L_Buy_Pressure))
    THEN [kind |-> "KeyError", rows |-> <<>>]
    ELSE [kind |-> "ok",
          rows |-> SelectSeq([k \in 1 .. Len(df.rows) |-> IndustryRecord(df, k)],
                             LAMBDA r : ~HasNaInNumbers(r))]

\* lines 173-176: the three columns, coerced, rows with a missing value dropped
QualifyingIndustries(df) ==
    IF ~(HasColumn(df, L_Industry) /\ HasColumn(df, L_RS_Rating)
            /\ HasColumn(df, L_Buy_Pressure))
    THEN [kind |-> "KeyError", rows |-> <<>>]
    ELSE [kind |-> "ok",
          rows |-> SelectSeq([k \in 1 .. Len(df.rows) |-> IndustryRecord(df, k)],
                             LAMBDA r : ~HasNa(r))]

\* lines 178-192: the full population, or the qualifying rows when the
\* Full_Results sheet, its Industry or its Buy_Pressure column is missing
AllIndustries(wb, df_industry) ==
    IF "Full_Results" \notin Range(wb.sheet_names)
    THEN [has_rs |-> TRUE, rows |-> df_industry]
    ELSE LET df_full == ReadExcel(wb.sheets["Full_Results"], 0)
         IN  IF HasColumn(df_full, L_Industry) /\ HasColumn(df_full, L_Buy_Pressure)
             THEN LET rs == HasColumn(df_full, L_RS_Rating)
                      rec(k) ==
                        [Industry |-> Column(df_full, L_Industry)[k],
                         RS_Rating |-> IF rs THEN ToNumeric(Column(df_full, L_RS_Rating)[k])
                                       ELSE NaN,
                         Buy_Pressure |-> ToNumeric(Column(df_full, L_Buy_Pressure)[k])]
                  IN  [has_rs |-> rs,
                       rows |-> SelectSeq([k \in 1 .. Len(df_full.rows) |-> rec(k)],
                                          LAMBDA r : ~r.Buy_Pressure.nan)]
             ELSE [has_rs |-> TRUE, rows |-> df_industry]

-----------------------------------------------------------------------------
(* Screening sheet and the industry -> sector map                          *)

ScreeningColumns ==
    <<L_Symbol, L_Industry, L_Technical_Score, L_Screening_Score,
      L_Buy_Pressure, L_Company_Name>>

\* Technical_Score >= 10 at line 195 (10 is also the slider minimum)
MIN_TECH_SCORE == 10

StockRecord(df, k) ==
    [Symbol |-> Column(df, L_Symbol)[k],
     Industry |-> Column(df, L_Industry)[k],
     Technical_Score |-> Column(df, L_Technical_Score)[k],
     Screening_Score |-> Column(df, L_Screening_Score)[k],
     Buy_Pressure |-> Column(df, L_Buy_Pressure)[k],
     Company_Name |-> Column(df, L_Company_Name)[k]]

\* lines 194-199: the Screening_Results sheet, filtered and projected.  A
\* missing sheet raises ValueError, a missing column KeyError, a text cell
\* compared with 10 TypeError; NaN >= 10 is False.
ScreeningFiltered(wb) ==
    IF "Screening_Results" \notin Range(wb.sheet_names)
    THEN [kind |-> "ValueError", rows |-> <<>>]
    ELSE LET df_screening == ReadExcel(wb.sheets["Screening_Results"], 0)
         IN  IF ~HasColumn(df_screening, L_Technical_Score)
             THEN [kind |-> "KeyError", rows |-> <<>>]
             ELSE IF \E k \in 1 .. Len(df_screening.rows) :
                        Column(df_screening, L_Technical_Score)[k].t = "str"
             THEN [kind |-> "TypeError", rows |-> <<>>]
             ELSE IF \E c \in Range(ScreeningColumns) : ~HasColumn(df_screening, c)
             THEN [kind |-> "KeyError", rows |-> <<>>]
             ELSE [kind |-> "ok",
                   rows |-> SelectSeq(
                       [k \in 1 .. Len(df_screening.rows) |-> StockRecord(df_screening, k)],
                       LAMBDA r : r.Technical_Score.t = "num"
                                  /\ r.Technical_Score.v >= MIN_TECH_SCORE)]

\* Series.drop_duplicates() / Series.unique(): first occurrences, in order
RECURSIVE DropDuplicates(_)
DropDuplicates(s) ==
    IF s = <<>> THEN <<>>
    ELSE LET init == DropDuplicates(SubSeq(s, 1, Len(s) - 1))
             last == s[Len(s)]
         IN  IF last \in Range(init) THEN init ELSE Append(init, last)

Count(s, x) == Cardinality({i \in 1 .. Len(s) : s[i] = x})

\* order of text values in a sorted Series
CellLess(a, b) == StrLess(a.s, b.s)

\* Series.mode().iloc[0]: mode() lists the most frequent values in sorted
\* order, so its first entry is the least of them
ModeFirst(values) ==
    LET top == {x \in Range(values) :
                   \A y \in Range(values) : Count(values, y) <= Count(values, x)}
    IN  CHOOSE x \in top : \A y \in top : ~CellLess(y, x)

\* df_screening[['Industry', 'Sector']].dropna()
IndustrySectorPairs(df_screening) ==
    SelectSeq([k \in 1 .. Len(df_screening.rows) |->
                 [Industry |-> Column(df_screening, L_Industry)[k],
                  Sector |-> Column(df_screening, L_Sector)[k]]],
              LAMBDA r : r.Industry.t # "nan" /\ r.Sector.t # "nan")

SectorsOf(sector_df, industry) ==
    LET rows == SelectSeq(sector_df, LAMBDA r : r.Industry = industry)
    IN  [k \in 1 .. Len(rows) |-> rows[k].Sector]

\* lines 201-206: the pairs are de-duplicated before the mode is taken
IndustrySectorMap(wb) ==
    LET df_screening == ReadExcel(wb.sheets["Screening_Results"], 0)
    IN  IF HasColumn(df_screening, L_Sector) /\ HasColumn(df_screening, L_Industry)
        THEN LET sector_df == DropDuplicates(IndustrySectorPairs(df_screening))
                 industries == {sector_df[k].Industry : k \in 1 .. Len(sector_df)}
             IN  [industry \in industries |-> ModeFirst(SectorsOf(sector_df, industry))]
        ELSE <<>>

-----------------------------------------------------------------------------
(* get_data_date_from_filename                                             *)

\* "不明", returned for a name without a timestamp
UNKNOWN_DATE == <<"u","n","k","n","o","w","n">>

IsDigitRun(s, from, to) == \A i \in from .. to : s[i] \in Digits

\* re.search(r'(\d{8})_\d{6}', filename): start of the leftmost match, 0 if none
DateMatchStart(filename) ==
    LET starts == {i \in 1 .. Len(filename) - 14 :
                      /\ IsDigitRun(filename, i, i + 7)
                      /\ filename[i + 8] = "_"
                      /\ IsDigitRun(filename, i + 9, i + 14)}
    IN  IF starts = {} THEN 0
        ELSE CHOOSE i \in starts : \A j \in starts : i <= j

IsLeap(y) == (y % 4 = 0 /\ y % 100 # 0) \/ y % 400 = 0

DaysInMonth(y, m) ==
    IF m = 2 THEN (IF IsLeap(y) THEN 29 ELSE 28)
    ELSE IF m \in {4, 6, 9, 11} THEN 30
    ELSE 31

\* file_date - timedelta(days=1)
DayBefore(y, m, d) ==
    IF d > 1 THEN [y |-> y, m |-> m, d |-> d - 1]
    ELSE IF m > 1 THEN [y |-> y, m |-> m - 1, d |-> DaysInMonth(y, m - 1)]
    ELSE [y |-> y - 1, m |-> 12, d |-> 31]

DigitChar(n) == CodePointOrder[CharCode("0") + n]

\* the decimal digits of n, zero-padded to width w
RECURSIVE Padded(_, _)
Padded(n, w) ==
    IF w = 0 THEN <<>> ELSE Append(Padded(n \div 10, w - 1), DigitChar(n % 10))

\* strftime('%Y-%m-%d')
FormatDate(date) ==
    Padded(date.y, 4) \o <<"-">> \o Padded(date.m, 2) \o <<"-">> \o Padded(date.d, 2)

\* lines 117-123.  strptime raises ValueError for a month or day that does
\* not exist, and the subtraction OverflowError on 0001-01-01.
get_data_date_from_filename(filename) ==
    LET i == DateMatchStart(filename)
    IN  IF i = 0 THEN [kind |-> "ok", text |-> UNKNOWN_DATE]
        ELSE LET y == DigitsValue(SubSeq(filename, i, i + 3))
                 m == DigitsValue(SubSeq(filename, i + 4, i + 5))
                 d == DigitsValue(SubSeq(filename, i + 6, i + 7))
             IN  IF y < 1 \/ m < 1 \/ m > 12 \/ d < 1 \/ d > DaysInMonth(y, m)
                 THEN [kind |-> "ValueError", text |-> <<>>]
                 ELSE IF y = 1 /\ m = 1 /\ d = 1
                 THEN [kind |-> "OverflowError", text |-> <<>>]
                 ELSE [kind |-> "ok", text |-> FormatDate(DayBefore(y, m, d))]

-----------------------------------------------------------------------------
(* Sector rollup of tab3 (lines 734-750)                                   *)

SECTOR_UNKNOWN == Txt(<<"U","n","k","n","o","w","n">>)

\* RS_Rating >= 80 at line 748
RS_HIGH == 80

\* line 735: df_bp_ranking['Industry'].map(industry_sector_map).fillna('Unknown')
WithSector(rows, map) ==
    [k \in 1 .. Len(rows) |->
        [Industry |-> rows[k].Industry,
         RS_Rating |-> rows[k].RS_Rating,
         Buy_Pressure |-> rows[k].Buy_Pressure,
         Sector |-> IF rows[k].Industry \in DOMAIN map
                    THEN map[rows[k].Industry] ELSE SECTOR_UNKNOWN]]

\* the sum of the Buy_Pressure column
RECURSIVE SumBP(_)
SumBP(df) == IF df = <<>> THEN 0 ELSE Head(df).Buy_Pressure.v + SumBP(Tail(df))

\* mean(a) >= mean(b) for two non-empty frames
MeanGe(a, b) == SumBP(a) * Len(b) >= SumBP(b) * Len(a)

\* line 737-738: the sectors by descending mean Buy_Pressure (sort_values
\* with the default kind: sectors of equal mean in any order)
SortedSectors(df_bp_ranking) ==
    LET sectors == {df_bp_ranking[k].Sector : k \in 1 .. Len(df_bp_ranking)}
        n == Cardinality(sectors)
        of(sector) == RowsWhere(df_bp_ranking, "Sector", sector)
    IN  {q \in [1 .. n -> sectors] :
            /\ \A i, j \in 1 .. n : i # j => q[i] # q[j]
            /\ \A i \in 1 .. n - 1 : MeanGe(of(q[i]), of(q[i + 1]))}

\* line 742 with ascending=False
RollupSortsDescending(df, col) ==
    LET n == Len(df)
        ranks == {p \in Permutations(1 .. n) :
                    \A i \in 1 .. n - 1 :
                       \/ df[p[i + 1]][col].nan
                       \/ ~df[p[i]][col].nan /\ df[p[i]][col].v >= df[p[i + 1]][col].v}
    IN  {[i \in 1 .. n |-> df[p[i]]] : p \in ranks}

\* line 742: df_sector.sort_values('RS_Rating', ascending=True); NaN ratings
\* last, equal ratings in any order
SortValuesAsc(df, col) ==
    LET n == Len(df)
        ranks == {p \in Permutations(1 .. n) :
                    \A i \in 1 .. n - 1 :
                       \/ df[p[i + 1]][col].nan
                       \/ ~df[p[i]][col].nan /\ df[p[i]][col].v <= df[p[i + 1]][col].v}
    IN  {[i \in 1 .. n |-> df[p[i]]] : p \in ranks}

\* lines 747-750: what the heading of a sector shows, and its rows
SectorBlock(sector, df_sector) ==
    [Sector |-> sector,
     rows |-> df_sector,
     sector_avg |-> [sum |-> SumBP(df_sector), n |-> Len(df_sector)],
     rs80_count |-> Len(SelectSeq(df_sector, LAMBDA r : Ge(r.RS_Rating, RS_HIGH))),
     total_count |-> Len(df_sector)]

\* the loop of lines 740-750 over the sorted sectors
RECURSIVE SectorLoop(_, _)
SectorLoop(sorted_sectors, df_bp_ranking) ==
    IF sorted_sectors = <<>> THEN {<<>>}
    ELSE LET sector == Head(sorted_sectors)
             blocks == {SectorBlock(sector, df_sector) :
                          df_sector \in SortValuesAsc(
                              RowsWhere(df_bp_ranking, "Sector", sector), "RS_Rating")}
         IN  {<<b>> \o rest : b \in blocks,
                              rest \in SectorLoop(Tail(sorted_sectors), df_bp_ranking)}

\* lines 734-750.  A population without the RS_Rating column (a Full_Results
\* sheet that lacks it) makes sort_values raise KeyError in the first sector.
SectorRollup(df_all_industry, industry_sector_map) ==
    LET df_bp_ranking == WithSector(df_all_industry.rows, industry_sector_map)
    IN  IF df_all_industry.rows # <<>> /\ ~df_all_industry.has_rs
        THEN {[kind |-> "KeyError", sectors |-> <<>>]}
        ELSE {[kind |-> "ok", sectors |-> blocks] :
                 blocks \in UNION {SectorLoop(q, df_bp_ranking) :
                                      q \in SortedSectors(df_bp_ranking)}}

-----------------------------------------------------------------------------
(* The TS x FS cross-tabulation (render_check_tab_with_fs)                 *)
(*                                                                         *)
(* Screening_Score and Fundamental_Score are floats: they are held in      *)
(* units of 1/2 (13 is 6.5), or NaN for an empty Screening_Score cell.     *)
(* Technical_Score is held in whole units, Buy_Pressure in 1/10000.        *)

\* lines 257-259: Fundamental_Score = Screening_Score - Technical_Score
WithFundamentalScore(df) ==
    [k \in 1 .. Len(df) |->
        [Symbol |-> df[k].Symbol,
         Industry |-> df[k].Industry,
         Technical_Score |-> df[k].Technical_Score,
         Buy_Pressure |-> df[k].Buy_Pressure,
         Fundamental_Score |->
            IF df[k].Screening_Score.nan THEN NaN
            ELSE Num(df[k].Screening_Score.v - 2 * df[k].Technical_Score)]]

\* sorted(values, reverse=True) of a set of numbers
RECURSIVE SortedReverse(_)
SortedReverse(values) ==
    IF values = {} THEN <<>>
    ELSE LET top == CHOOSE v \in values : \A w \in values : w <= v
         IN  <<top>> \o SortedReverse(values \ {top})

\* int(f) of a float held in halves, again in halves: truncation toward zero
IntOf(f) == IF f >= 0 THEN 2 * (f \div 2) ELSE 0 - 2 * ((0 - f) \div 2)

\* line 519: the distinct Technical_Score values, descending
TsValues(df) == SortedReverse({df[k].Technical_Score : k \in 1 .. Len(df)})

\* lines 522-526: the Fundamental_Score values found with ts
FsFloats(df, ts) ==
    {df[k].Fundamental_Score : k \in {i \in 1 .. Len(df) : df[i].Technical_Score = ts}}

\* lines 522-527: ts_fs_map[ts] = [int(f) for f in fs_vals]
FsVals(df, ts) ==
    LET fs_vals == SortedReverse({f.v : f \in FsFloats(df, ts)})
    IN  [i \in 1 .. Len(fs_vals) |-> IntOf(fs_vals[i])]

\* lines 530-533: all_sub_cols
RECURSIVE AllSubCols(_, _)
AllSubCols(df, ts_values) ==
    IF ts_values = <<>> THEN <<>>
    ELSE LET ts == Head(ts_values)
             fs == FsVals(df, ts)
         IN  [i \in 1 .. Len(fs) |-> <<ts, fs[i]>>] \o AllSubCols(df, Tail(ts_values))

\* lines 388-397 (get_colored_symbols_html_with_fs): the stocks of a cell in
\* the orders sort_values('Buy_Pressure', ascending=False) can give
CellStocks(industry, ts, fs, df) ==
    SortValuesDesc(SelectSeq(df, LAMBDA r : /\ r.Industry = industry
                                            /\ r.Technical_Score = ts
                                            /\ r.Fundamental_Score = Num(fs)),
                   "Buy_Pressure")

\* lines 623-635: the cells of one row; a cell without stocks is <td></td>
RECURSIVE RowCells(_, _, _)
RowCells(industry, cols, df) ==
    IF cols = <<>> THEN {<<>>}
    ELSE {<<c>> \o rest :
            c \in CellStocks(industry, Head(cols)[1], Head(cols)[2], df),
            rest \in RowCells(industry, Tail(cols), df)}

\* lines 606-637: the data rows
RECURSIVE DataRows(_, _, _)
DataRows(df_check, cols, df) ==
    IF df_check = <<>> THEN {<<>>}
    ELSE {<<[Industry |-> Head(df_check), cells |-> cells]>> \o rest :
            cells \in RowCells(Head(df_check), cols, df),
            rest \in DataRows(Tail(df_check), cols, df)}

\* lines 511-667.  int(f) raises ValueError for a NaN Fundamental_Score.
render_check_tab_with_fs(df_check, df_screening_disp) ==
    IF \E k \in 1 .. Len(df_screening_disp) : df_screening_disp[k].Fundamental_Score.nan
    THEN {[kind |-> "ValueError", columns |-> <<>>, rows |-> <<>>]}
    ELSE LET cols == AllSubCols(df_screening_disp, TsValues(df_screening_disp))
         IN  {[kind |-> "ok", columns |-> cols, rows |-> rows] :
                 rows \in DataRows(df_check, cols, df_screening_disp)}

-----------------------------------------------------------------------------
(* load_data and the script around it                                      *)

NoFrames ==
    [df_industry |-> <<>>, df_all_industry |-> [has_rs |-> TRUE, rows |-> <<>>],
     df_screening |-> <<>>, industry_sector_map |-> <<>>]

Loaded(f1, f2, date, frames) ==
    [kind |-> "ok", msg |-> "", file1 |-> f1, file2 |-> f2, data_date |-> date,
     frames |-> frames]

LoadFailed(kind, msg) ==
    [kind |-> kind, msg |-> msg, file1 |-> <<>>, file2 |-> <<>>, data_date |-> <<>>,
     frames |-> NoFrames]

NotLoaded == LoadFailed("none", "")

\* lines 141-208 for the two files chosen
LoadFrames(file1_path, file2_path, data_date, wb1, wb2) ==
    LET located == LocateIndustryTable(wb1)
        qualifying == QualifyingIndustries(located.df)
        screening == ScreeningFiltered(wb2)
    IN  IF located.kind = "ValueError" THEN LoadFailed("ValueError", "sheet_names")
        ELSE IF located.kind # "ok" THEN LoadFailed(located.kind, "")
        ELSE IF qualifying.kind # "ok" THEN LoadFailed(qualifying.kind, "")
        ELSE IF screening.kind # "ok" THEN LoadFailed(screening.kind, "")
        ELSE Loaded(file1_path, file2_path, data_date,
                    [df_industry |-> qualifying.rows,
                     df_all_industry |-> AllIndustries(wb1, qualifying.rows),
                     df_screening |-> screening.rows,
                     industry_sector_map |-> IndustrySectorMap(wb2)])

\* the outcomes of load_data() (lines 130-208) on the files of DATA_DIR; wb1
\* and wb2 are the workbooks held by the industry and the screening snapshot
load_data(files, wb1, wb2) ==
    {IF o1.kind # "ok" THEN LoadFailed(o1.kind, o1.msg)
     ELSE IF o2.kind # "ok" THEN LoadFailed(o2.kind, o2.msg)
     ELSE LET date == get_data_date_from_filename(o1.path)
          IN  IF date.kind # "ok" THEN LoadFailed(date.kind, "")
              ELSE LoadFrames(o1.path, o2.path, date.text, wb1, wb2) :
        o1 \in find_latest_file(files, PREFIX_INDUSTRY),
        o2 \in find_latest_file(files, PREFIX_SCREENING)}

\* what the script does after load_data, in order
Stages ==
    <<"filters", "summary", "check", "check_fs", "matrix_technical",
      "matrix_screening", "sector_rollup">>

NoPage ==
    [loaded |-> NotLoaded, errors |-> <<>>, stopped |-> FALSE, uncaught |-> "",
     stages |-> <<>>]

\* lines 212-218 and the rest of the script without st.stop()
PageNoStop(o) ==
    IF o.kind = "ok"
    THEN [loaded |-> o, errors |-> <<>>, stopped |-> FALSE, uncaught |-> "",
          stages |-> Stages]
    ELSE [loaded |-> NotLoaded, errors |-> <<[kind |-> o.kind, msg |-> o.msg]>>, stopped |-> FALSE,
          uncaught |-> "", stages |-> Stages]

\* lines 212-218 and the rest of the script: what one run shows for the
\* outcome o of load_data.  On an error st.error reports it and st.stop()
\* ends the run.  int(df_screening['Technical_Score'].max()) at line 228
\* raises ValueError when no stock row is left, outside the try; so does
\* sort_values('RS_Rating') at line 742 (KeyError) when df_all_industry has
\* rows and no RS_Rating column.
Page(o) ==
    IF o.kind = "ok"
    THEN IF o.frames.df_screening = <<>>
         THEN [loaded |-> o, errors |-> <<>>, stopped |-> FALSE,
               uncaught |-> "ValueError", stages |-> <<>>]
         ELSE IF /\ ~o.frames.df_all_industry.has_rs
                 /\ o.frames.df_all_industry.rows # <<>>
         THEN [loaded |-> o, errors |-> <<>>, stopped |-> FALSE,
               uncaught |-> "KeyError",
               stages |-> SubSeq(Stages, 1, Len(Stages) - 1)]
         ELSE [loaded |-> o, errors |-> <<>>, stopped |-> FALSE, uncaught |-> "",
               stages |-> Stages]
    ELSE [loaded |-> NotLoaded, errors |-> <<[kind |-> o.kind, msg |-> o.msg]>>, stopped |-> TRUE,
          uncaught |-> "", stages |-> <<>>]

-----------------------------------------------------------------------------
(* The data directory and the files that may arrive in it                  *)

MaxFiles == 3

T_0210 == <<"2","0","2","6","0","2","1","0","_","0","9","0","0","0","0">>
T_0211 == <<"2","0","2","6","0","2","1","1","_","0","9","0","0","0","0">>
T_0211b == <<"2","0","2","6","0","2","1","1","_","1","0","0","0","0","0">>
\* seven digits before the underscore: not a timestamp token
T_short == <<"2","0","2","6","0","2","1","_","0","9","0","0","0","0">>

SnapshotNames(prefix) ==
    { prefix \o T_0210 \o XLSX,
      prefix \o T_0211 \o XLSX,
      prefix \o <<"v","2","_">> \o T_0211 \o XLSX,
      prefix \o T_0211b \o XLSX,
      prefix \o <<"l","a","t","e","s","t">> \o XLSX,
      prefix \o T_short \o XLSX,
      prefix \o T_0211b \o <<".","x","l","s">> }

FileUniverse ==
    SnapshotNames(PREFIX_INDUSTRY) \cup SnapshotNames(PREFIX_SCREENING)
        \cup {<<"o","l","d","_">> \o T_0211b \o XLSX}

NoCall == [prefix |-> <<>>, kind |-> "none", path |-> <<>>, msg |-> ""]

ClassifierIdle == bp = Num(0) /\ status = [sorted |-> "", display |-> ""]

MatrixIdle ==
    /\ df_screening_display = <<>>
    /\ df_industry_display = <<>>
    /\ sort_by = "Technical_Score"
    /\ max_stocks_per_industry = 0
    /\ matrix = [done |-> FALSE, groups |-> <<>>]

NoBook == [sheet_names |-> <<>>, sheets |-> <<>>]

NoRun == [hit |-> FALSE, dir |-> {}]

ScriptIdle ==
    /\ book1 = NoBook /\ book2 = NoBook /\ cache = NotLoaded /\ page = NoPage
    /\ last_run = NoRun

NoDate == [kind |-> "", text |-> <<>>]

DateIdle == snapshot_name = <<>> /\ date_result = NoDate

NoRollup == [done |-> FALSE, kind |-> "", sectors |-> <<>>]

RollupIdle ==
    /\ population = [has_rs |-> TRUE, rows |-> <<>>]
    /\ sector_map = <<>>
    /\ rollup = NoRollup

NoCross == [done |-> FALSE, kind |-> "", columns |-> <<>>, rows |-> <<>>]

CrossIdle == check_rows = <<>> /\ check_stocks = <<>> /\ crosstab = NoCross

AuxIdle == DateIdle /\ RollupIdle /\ CrossIdle

InitResolver ==
    /\ dir = {}
    /\ found = NoCall
    /\ lastAdded = <<>>
    /\ fresh = FALSE
    /\ ClassifierIdle
    /\ MatrixIdle
    /\ ScriptIdle
    /\ AuxIdle

\* a snapshot file is written into DATA_DIR by the producer of the snapshots
AddFile(f) ==
    /\ f \notin dir
    /\ Cardinality(dir) < MaxFiles
    /\ dir' = dir \cup {f}
    /\ lastAdded' = f
    /\ fresh' = FALSE
    /\ UNCHANGED <<found, classifierVars, matrixVars, scriptVars>>
    /\ UNCHANGED auxVars

\* a call find_latest_file(DATA_DIR, prefix)
Resolve(prefix) ==
    /\ \E o \in find_latest_file(dir, prefix) :
          found' = [prefix |-> prefix, kind |-> o.kind, path |-> o.path, msg |-> o.msg]
    /\ fresh' = TRUE
    /\ UNCHANGED <<dir, lastAdded, classifierVars, matrixVars, scriptVars>>
    /\ UNCHANGED auxVars

NextResolver ==
    \/ \E f \in FileUniverse : AddFile(f)
    \/ \E p \in Prefixes : Resolve(p)

SpecResolver == InitResolver /\ [][NextResolver]_vars

-----------------------------------------------------------------------------
(* The classifier applied to one buy pressure value                        *)

MaxBP == 10000

BuyPressures == {Num(v) : v \in 0 .. MaxBP} \cup {NaN}

ResolverIdle ==
    dir = {} /\ found = NoCall /\ lastAdded = <<>> /\ fresh = FALSE

InitClassifier ==
    /\ bp \in BuyPressures
    /\ status = [sorted |-> "", display |-> ""]
    /\ ResolverIdle
    /\ MatrixIdle
    /\ ScriptIdle
    /\ AuxIdle

ClassifySorted ==
    /\ status.sorted = ""
    /\ status' = [status EXCEPT !.sorted = get_buy_pressure_status(bp)]
    /\ UNCHANGED <<bp, resolverVars, matrixVars, scriptVars>>
    /\ UNCHANGED auxVars

ClassifyDisplay ==
    /\ status.display = ""
    /\ status' = [status EXCEPT !.display = get_buy_pressure_status_display(bp)]
    /\ UNCHANGED <<bp, resolverVars, matrixVars, scriptVars>>
    /\ UNCHANGED auxVars

NextClassifier == ClassifySorted \/ ClassifyDisplay

SpecClassifier == InitClassifier /\ [][NextClassifier]_vars

-----------------------------------------------------------------------------
(* create_industry_table applied to small tables                           *)

NumStocks == 4
MaxPerGroup == 2

IndustryNames == {"Semis", "Banks"}
TechScores == {13, 14}
RSRatings == {80, 95}

\* Fundamental_Score of the stock in row i (Screening_Score - Technical_Score)
FundamentalOf(i) == IF i % 2 = 1 THEN 6 ELSE 5

StockRow(i, ind, ts) ==
    [Symbol |-> i, Industry |-> ind, Technical_Score |-> ts,
     Screening_Score |-> ts + FundamentalOf(i)]

StockTables ==
    {[i \in 1 .. NumStocks |-> StockRow(i, ind[i], ts[i])] :
        ind \in [1 .. NumStocks -> IndustryNames],
        ts \in [1 .. NumStocks -> TechScores]}

IndustryTables ==
    {<<[Industry |-> "Semis", RS_Rating |-> a],
       [Industry |-> "Banks", RS_Rating |-> b]>> : a \in RSRatings, b \in RSRatings}

\* max_stocks_per_industry is the sidebar slider of lines 233-239 (5, 10, ..
\* 30); it is drawn from 1 .. MaxPerGroup so that tables of NumStocks rows
\* hold groups longer than the limit.
InitMatrix ==
    /\ df_screening_display \in StockTables
    /\ df_industry_display \in IndustryTables
    /\ sort_by \in {"Technical_Score", "Screening_Score"}
    /\ max_stocks_per_industry \in 1 .. MaxPerGroup
    /\ matrix = [done |-> FALSE, groups |-> <<>>]
    /\ ResolverIdle
    /\ ClassifierIdle
    /\ ScriptIdle
    /\ AuxIdle

\* tab1 / tab2: create_industry_table(df_screening_display,
\* df_industry_display, sort_by=...)
CreateIndustryTable ==
    /\ ~matrix.done
    /\ \E t \in create_industry_table(df_screening_display, df_industry_display,
                                       sort_by, max_stocks_per_industry) :
          matrix' = [done |-> TRUE, groups |-> t]
    /\ UNCHANGED <<df_screening_display, df_industry_display, sort_by,
                   max_stocks_per_industry, resolverVars, classifierVars,
                   scriptVars>>
    /\ UNCHANGED auxVars

NextMatrix == CreateIndustryTable

SpecMatrix == InitMatrix /\ [][NextMatrix]_vars

-----------------------------------------------------------------------------
(* Workbooks the snapshots may hold                                        *)

NumRows == 2
MaxLead == 1
NumStockRows == 3

IndustryName(i) == IF i % 2 = 1 THEN Txt(<<"S","e","m","i","s">>) ELSE Txt(<<"B","a","n","k","s">>)

IndustryCells(i) == {IndustryName(i), Blank}
RatingCells == {NumCell(95), Txt(<<"8","8">>), Txt(<<"N","/","A">>)}
PressureCells == {NumCell(6100), Blank}

IndustryRows ==
    {[i \in 1 .. NumRows |-> <<ind[i], rs[i], p[i]>>] :
        ind \in {f \in [1 .. NumRows -> IndustryCells(1) \cup IndustryCells(2)] :
                    \A i \in 1 .. NumRows : f[i] \in IndustryCells(i)},
        rs \in [1 .. NumRows -> RatingCells],
        p \in [1 .. NumRows -> PressureCells]}

PlainRows == [i \in 1 .. NumRows |-> <<IndustryName(i), NumCell(95), NumCell(6100)>>]

\* rows of report text above the header
Lead(n) == [i \in 1 .. n |-> <<Txt(<<"R","e","p","o","r","t">>), Blank, Blank>>]

FullHeader == <<L_Industry, L_RS_Rating, L_Buy_Pressure>>
\* headers of a generation the script does not know
Headers ==
    {FullHeader,
     <<Txt(<<"N","a","m","e">>), L_RS_Rating, L_Buy_Pressure>>,
     <<L_Industry, Txt(<<"R","a","t","i","n","g">>), L_Buy_Pressure>>,
     <<L_RS_Rating, L_Industry, L_Buy_Pressure>>}

IndustryGrids ==
    {Lead(n) \o <<FullHeader>> \o rows : n \in 0 .. MaxLead, rows \in IndustryRows}
      \cup {Lead(n) \o <<h>> \o PlainRows : n \in 0 .. MaxLead, h \in Headers}
      \cup {Lead(n) : n \in 0 .. MaxLead}

FullGrid == <<FullHeader>> \o PlainRows

\* headers of a Full_Results sheet: complete, or lacking one column
FullResultsHeaders ==
    {FullHeader,
     <<L_Industry, L_Buy_Pressure>>,
     <<L_RS_Rating, L_Buy_Pressure>>,
     <<L_Industry, L_RS_Rating>>}

\* the cell of a Full_Results row under a column label; the population has
\* one industry more than the qualifying sheet
FullResultsCell(label, i) ==
    IF label = L_Industry
    THEN (IF i <= NumRows THEN IndustryName(i) ELSE Txt(<<"O","i","l">>))
    ELSE IF label = L_RS_Rating THEN NumCell(40 + i)
    ELSE NumCell(4000 + i)

FullResultsGrids ==
    {<<h>> \o [i \in 1 .. NumRows + 1 |->
                 [j \in 1 .. Len(h) |-> FullResultsCell(h[j], i)]] :
        h \in FullResultsHeaders} \cup {<<>>}

\* workbooks with a Full_Results sheet next to a complete qualifying sheet
BooksWithFullResults ==
    {[sheet_names |-> <<"Multi_Condition_Passed", "Full_Results">>,
      sheets |-> [n \in {"Multi_Condition_Passed", "Full_Results"} |->
                    IF n = "Full_Results" THEN fg ELSE FullGrid]] :
        fg \in FullResultsGrids}

Books1 ==
    {[sheet_names |-> <<"Multi_Condition_Passed">>,
      sheets |-> [n \in {"Multi_Condition_Passed"} |-> g]] : g \in IndustryGrids}
      \cup {[sheet_names |-> <<"Sheet1">>,
             sheets |-> [n \in {"Sheet1"} |-> g]] : g \in IndustryGrids}
      \cup {[sheet_names |-> <<"Multi_Condition_Passed", "Full_Results">>,
             sheets |-> [n \in {"Multi_Condition_Passed", "Full_Results"} |->
                           IF n = "Full_Results" THEN FullGrid ELSE g]] :
               g \in {Lead(n) \o <<FullHeader>> \o PlainRows : n \in 0 .. MaxLead}}
      \cup BooksWithFullResults

GoodBook1 ==
    [sheet_names |-> <<"Multi_Condition_Passed">>,
     sheets |-> [n \in {"Multi_Condition_Passed"} |-> FullGrid]]

ScreeningHeader ==
    <<L_Symbol, L_Industry, L_Technical_Score, L_Screening_Score,
      L_Buy_Pressure, L_Company_Name, L_Sector>>

SectorCells == {Txt(<<"T","e","c","h">>), Txt(<<"E","n","e","r","g","y">>), Blank}

\* Technical_Score of the stock in row i: the second row is below the minimum
TechOf(i) == IF i = 2 THEN 9 ELSE 14

ScreeningRow(i, ind, sec, ts) ==
    <<NumCell(i), ind, ts, NumCell(20), NumCell(6100), Txt(<<"C","o">>), sec>>

ScreeningRows ==
    {[i \in 1 .. NumStockRows |-> ScreeningRow(i, ind[i], sec[i], NumCell(TechOf(i)))] :
        ind \in [1 .. NumStockRows -> {IndustryName(1), IndustryName(2)}],
        sec \in [1 .. NumStockRows -> SectorCells]}

PlainStocks(ts) ==
    [i \in 1 .. NumStockRows |-> ScreeningRow(i, IndustryName(i), Txt(<<"T","e","c","h">>), ts)]

\* the grid without its column c
WithoutColumn(grid, c) ==
    [k \in 1 .. Len(grid) |->
        SelectSeq([j \in 1 .. Len(grid[k]) |-> [j |-> j, cell |-> grid[k][j]]],
                  LAMBDA x : x.j # c)]

DropColumn(grid, c) ==
    LET w == WithoutColumn(grid, c)
    IN  [k \in 1 .. Len(w) |-> [j \in 1 .. Len(w[k]) |-> w[k][j].cell]]

ScreeningGrids ==
    {<<ScreeningHeader>> \o rows : rows \in ScreeningRows}
      \cup {<<ScreeningHeader>> \o PlainStocks(ts) :
              ts \in {NumCell(14), NumCell(9), Txt(<<"n","/","a">>), Blank}}
      \cup {DropColumn(<<ScreeningHeader>> \o PlainStocks(NumCell(14)), c) :
              c \in {1, 3, 7}}

Books2 ==
    {[sheet_names |-> <<"Screening_Results">>,
      sheets |-> [n \in {"Screening_Results"} |-> g]] : g \in ScreeningGrids}
      \cup {[sheet_names |-> <<"Sheet1">>,
             sheets |-> [n \in {"Sheet1"} |->
                           <<ScreeningHeader>> \o PlainStocks(NumCell(14))]]}

GoodBook2 ==
    [sheet_names |-> <<"Screening_Results">>,
     sheets |-> [n \in {"Screening_Results"} |->
                   <<ScreeningHeader>> \o PlainStocks(NumCell(14))]]

-----------------------------------------------------------------------------
(* Runs of the script                                                      *)

\* a run of the script that calls load_data whatever the cache holds
RunScriptIgnoresCache ==
    /\ \E o \in load_data(dir, book1, book2) :
          /\ cache' = (IF o.kind = "ok" THEN o ELSE cache)
          /\ page' = Page(o)
    /\ fresh' = TRUE
    /\ last_run' = [hit |-> cache.kind = "ok", dir |-> dir]
    /\ UNCHANGED <<dir, found, lastAdded, classifierVars, matrixVars, book1, book2>>
    /\ UNCHANGED auxVars

\* one run of the script (a page load or a widget change).  st.cache_data
\* (line 129) returns the stored value of load_data when there is one and
\* stores the value of a call that returns; a call that raises stores nothing.
\* load_data takes no argument, so there is one entry, and the decorator sets
\* neither ttl nor max_entries.
RunScript ==
    /\ \E o \in (IF cache.kind = "ok" THEN {cache} ELSE load_data(dir, book1, book2)) :
          /\ cache' = (IF o.kind = "ok" THEN o ELSE cache)
          /\ page' = Page(o)
    /\ fresh' = (IF cache.kind = "ok" THEN fresh ELSE TRUE)
    /\ last_run' = [hit |-> cache.kind = "ok", dir |-> dir]
    /\ UNCHANGED <<dir, found, lastAdded, classifierVars, matrixVars, book1, book2>>
    /\ UNCHANGED auxVars

\* the cache is cleared (st.cache_data.clear, "Clear cache", a restart)
ClearCache ==
    /\ cache.kind = "ok"
    /\ cache' = NotLoaded
    /\ UNCHANGED <<resolverVars, classifierVars, matrixVars, book1, book2, page,
                   last_run>>
    /\ UNCHANGED auxVars

GoodDir ==
    {PREFIX_INDUSTRY \o T_0210 \o XLSX,
     PREFIX_INDUSTRY \o T_0211 \o XLSX,
     PREFIX_SCREENING \o T_0211 \o XLSX}

\* load_data on two resolvable snapshots, over the workbooks they may hold
InitLoad ==
    /\ dir = GoodDir
    /\ found = NoCall
    /\ lastAdded = <<>>
    /\ fresh = FALSE
    /\ \/ book1 \in Books1 /\ book2 = GoodBook2
       \/ book1 = GoodBook1 /\ book2 \in Books2
    /\ cache = NotLoaded
    /\ page = NoPage
    /\ last_run = NoRun
    /\ ClassifierIdle
    /\ MatrixIdle
    /\ AuxIdle

NextLoad == RunScript \/ ClearCache

SpecLoad == InitLoad /\ [][NextLoad]_vars

\* 13th month: matches \d{8}_\d{6} and is no date
T_1301 == <<"2","0","2","6","1","3","0","1","_","0","9","0","0","0","0">>

ScriptFiles ==
    {PREFIX_INDUSTRY \o T_0210 \o XLSX,
     PREFIX_INDUSTRY \o T_0211 \o XLSX,
     PREFIX_INDUSTRY \o T_1301 \o XLSX,
     PREFIX_INDUSTRY \o <<"l","a","t","e","s","t">> \o XLSX,
     PREFIX_SCREENING \o T_0211 \o XLSX}

BadRowBook1 ==
    [sheet_names |-> <<"Multi_Condition_Passed">>,
     sheets |-> [n \in {"Multi_Condition_Passed"} |->
                   <<FullHeader>> \o PlainRows
                      \o << <<IndustryName(1), Txt(<<"N","/","A">>), NumCell(6100)>> >>]]

ScriptBooks1 ==
    {GoodBook1, BadRowBook1}
      \cup {[sheet_names |-> <<"Sheet1">>,
             sheets |-> [n \in {"Sheet1"} |-> Lead(1) \o FullGrid]]}
      \cup {[sheet_names |-> <<"Multi_Condition_Passed">>,
             sheets |-> [n \in {"Multi_Condition_Passed"} |->
                           <<h>> \o PlainRows]] : h \in Headers \ {FullHeader}}

ScriptBooks2 ==
    {GoodBook2,
     [sheet_names |-> <<"Sheet1">>,
      sheets |-> [n \in {"Sheet1"} |-> <<ScreeningHeader>> \o PlainStocks(NumCell(14))]],
     [sheet_names |-> <<"Screening_Results">>,
      sheets |-> [n \in {"Screening_Results"} |->
                    <<ScreeningHeader>> \o PlainStocks(Txt(<<"n","/","a">>))]]}

InitScript ==
    /\ dir = {}
    /\ found = NoCall
    /\ lastAdded = <<>>
    /\ fresh = FALSE
    /\ book1 \in ScriptBooks1
    /\ book2 \in ScriptBooks2
    /\ cache = NotLoaded
    /\ page = NoPage
    /\ last_run = NoRun
    /\ ClassifierIdle
    /\ MatrixIdle
    /\ AuxIdle

NextScript ==
    \/ \E f \in ScriptFiles : AddFile(f)
    \/ RunScript
    \/ ClearCache

SpecScript == InitScript /\ [][NextScript]_vars

-----------------------------------------------------------------------------
(* File names handed to get_data_date_from_filename                        *)

MaxMonth == 13
MaxDay == 32

\* a leap year, the year after it and a year whose first day follows a
\* leap year's last
TokenYears == {2024, 2025, 2026}

T_090000 == <<"_","0","9","0","0","0","0">>

\* the industry snapshot name whose token reads y, m, d (m and d need not
\* exist in the calendar: the resolver's pattern asks for digits only)
NameOf(y, m, d) ==
    PREFIX_INDUSTRY \o Padded(y, 4) \o Padded(m, 2) \o Padded(d, 2)
        \o T_090000 \o XLSX

DateNames ==
    {NameOf(y, m, d) : y \in TokenYears, m \in 0 .. MaxMonth, d \in 0 .. MaxDay}
        \cup {PREFIX_INDUSTRY \o <<"l","a","t","e","s","t">> \o XLSX,
              PREFIX_INDUSTRY \o T_short \o XLSX,
              PREFIX_INDUSTRY \o T_0210 \o <<"_">> \o T_0211 \o XLSX}

InitDate ==
    /\ snapshot_name \in DateNames
    /\ date_result = NoDate
    /\ ResolverIdle
    /\ ClassifierIdle
    /\ MatrixIdle
    /\ ScriptIdle
    /\ RollupIdle
    /\ CrossIdle

\* line 139: data_date = get_data_date_from_filename(file1_name)
DeriveDate ==
    /\ date_result = NoDate
    /\ date_result' = get_data_date_from_filename(snapshot_name)
    /\ UNCHANGED <<snapshot_name, resolverVars, classifierVars, matrixVars,
                   scriptVars, rollupVars, crossVars>>

NextDate == DeriveDate

SpecDate == InitDate /\ [][NextDate]_vars

-----------------------------------------------------------------------------
(* Populations and sector maps handed to the sector rollup                 *)

NumIndustries == 3

RollupNames ==
    <<Txt(<<"S","e","m","i","s">>), Txt(<<"B","a","n","k","s">>),
      Txt(<<"O","i","l">>), Txt(<<"G","o","l","d">>), Txt(<<"R","a","i","l">>)>>

RollupRatings == {Num(79), Num(80), NaN}
RollupPressures == {Num(5000), Num(6000)}
RollupSectors == {Txt(<<"T","e","c","h">>), Txt(<<"E","n","e","r","g","y">>)}

\* one row per industry; a rating is NaN where Full_Results held text
Populations ==
    {[has_rs |-> h,
      rows |-> [k \in 1 .. NumIndustries |->
                  [Industry |-> RollupNames[k],
                   RS_Rating |-> IF h THEN rs[k] ELSE NaN,
                   Buy_Pressure |-> bps[k]]]] :
        h \in BOOLEAN,
        rs \in [1 .. NumIndustries -> RollupRatings],
        bps \in [1 .. NumIndustries -> RollupPressures]}

\* maps that know some of the industries
SectorMaps ==
    UNION {[{RollupNames[k] : k \in known} -> RollupSectors] :
              known \in SUBSET (1 .. NumIndustries)}

InitRollup ==
    /\ population \in Populations
    /\ sector_map \in SectorMaps
    /\ rollup = NoRollup
    /\ ResolverIdle
    /\ ClassifierIdle
    /\ MatrixIdle
    /\ ScriptIdle
    /\ DateIdle
    /\ CrossIdle

\* tab3, lines 734-750
RunRollup ==
    /\ ~rollup.done
    /\ \E o \in SectorRollup(population, sector_map) :
          rollup' = [done |-> TRUE, kind |-> o.kind, sectors |-> o.sectors]
    /\ UNCHANGED <<population, sector_map, resolverVars, classifierVars,
                   matrixVars, scriptVars, dateVars, crossVars>>

NextRollup == RunRollup

SpecRollup == InitRollup /\ [][NextRollup]_vars

-----------------------------------------------------------------------------
(* Stock tables handed to the cross-tabulation                             *)

NumCrossStocks == 3

\* Fundamental_Score 6.0 and 6.5 in halves, and an empty Screening_Score
CrossFundamentals == {Num(12), Num(13), NaN}
CrossPressures == {5000, 6000}

CrossStockTables ==
    {[i \in 1 .. NumCrossStocks |->
        [Symbol |-> i, Industry |-> ind[i], Technical_Score |-> ts[i],
         Buy_Pressure |-> p[i],
         Screening_Score |-> IF fs[i].nan THEN NaN ELSE Num(2 * ts[i] + fs[i].v)]] :
        ind \in [1 .. NumCrossStocks -> IndustryNames],
        ts \in [1 .. NumCrossStocks -> TechScores],
        fs \in [1 .. NumCrossStocks -> CrossFundamentals],
        p \in [1 .. NumCrossStocks -> CrossPressures]}

InitCross ==
    /\ check_rows = <<"Semis", "Banks">>
    /\ check_stocks \in {WithFundamentalScore(t) : t \in CrossStockTables}
    /\ crosstab = NoCross
    /\ ResolverIdle
    /\ ClassifierIdle
    /\ MatrixIdle
    /\ ScriptIdle
    /\ DateIdle
    /\ RollupIdle

\* tab0b: render_check_tab_with_fs(df_check2, df_screening_display)
RenderCheckTabWithFs ==
    /\ ~crosstab.done
    /\ \E o \in render_check_tab_with_fs(check_rows, check_stocks) :
          crosstab' = [done |-> TRUE, kind |-> o.kind, columns |-> o.columns,
                       rows |-> o.rows]
    /\ UNCHANGED <<check_rows, check_stocks, resolverVars, classifierVars,
                   matrixVars, scriptVars, dateVars, rollupVars>>

NextCross == RenderCheckTabWithFs

SpecCross == InitCross /\ [][NextCross]_vars

-----------------------------------------------------------------------------
(* Properties                                                              *)

Candidates == FilesWithDates(dir, found.prefix)

\* C1: when at least one file matching prefix*.xlsx carries a timestamp
\* token right before the extension, find_latest_file returns a file whose
\* token is the lexicographically greatest among them; and when the file
\* that arrived last has a token strictly greater than every other one, the
\* next call returns that file.
C1_LatestTokenWins ==
    (fresh /\ Candidates # {}) =>
        /\ found.kind = "ok"
        /\ found.path \in Candidates
        /\ \A h \in Candidates :
              ~StrLess(DateToken(found.path), DateToken(h))
        /\ ( /\ lastAdded \in Candidates
             /\ \A h \in Candidates \ {lastAdded} :
                   StrLess(DateToken(h), DateToken(lastAdded)) )
           => found.path = lastAdded

\* a call after a newer snapshot arrived beside older ones returned the newcomer
C1_Witness ==
    /\ fresh
    /\ found.kind = "ok"
    /\ found.path = lastAdded
    /\ Cardinality(Candidates) >= 2
    /\ \A h \in Candidates \ {lastAdded} :
          StrLess(DateToken(h), DateToken(lastAdded))

\* C2: find_latest_file fails in exactly two ways, told apart by their
\* message: no file matches the prefix; files match but none has a
\* timestamp.  A matching file without a timestamp is never returned and
\* never makes the call fail while another matching file has one.
C2_TwoDistinctFailures ==
    fresh =>
        /\ found.kind \in {"ok", "FileNotFoundError"}
        /\ (found.kind = "FileNotFoundError" /\ found.msg = "no_match")
              <=> MatchedFiles(dir, found.prefix) = {}
        /\ (found.kind = "FileNotFoundError" /\ found.msg = "no_date_pattern")
              <=> (MatchedFiles(dir, found.prefix) # {} /\ Candidates = {})
        /\ found.kind = "FileNotFoundError"
              => found.msg \in {"no_match", "no_date_pattern"}
        /\ found.kind = "ok" => DateToken(found.path) # <<>>
        /\ Candidates # {} => found.kind = "ok"

\* a call succeeded although a matching file without a timestamp is present
C2_Witness ==
    /\ fresh
    /\ found.kind = "ok"
    /\ \E f \in MatchedFiles(dir, found.prefix) : DateToken(f) = <<>>

Classified == status.sorted # "" /\ status.display # ""

BucketFor(x) ==
    IF x.v > 6670 THEN "EXTREME"
    ELSE IF x.v > 6000 THEN "STRONG"
    ELSE IF x.v > 5500 THEN "BUY"
    ELSE IF x.v < 3330 THEN "WEAK"
    ELSE IF x.v < 4500 THEN "CAUTION"
    ELSE "NEUTRAL"

\* C3: for a number x both status functions return EXTREME if x > 0.667,
\* STRONG if 0.60 < x <= 0.667, BUY if 0.55 < x <= 0.60, WEAK if x < 0.333,
\* CAUTION if 0.333 <= x < 0.45 and NEUTRAL if 0.45 <= x <= 0.55.
C3_Thresholds ==
    (Classified /\ ~bp.nan) =>
        /\ StatusDisplay(status.sorted) = BucketFor(bp)
        /\ status.display = BucketFor(bp)

\* exactly 0.667 was classified, and not as EXTREME
C3_Witness ==
    /\ Classified
    /\ bp = Num(6670)
    /\ status.display = "STRONG"
    /\ status.sorted = "2 STRONG"

SixBuckets == {"WEAK", "CAUTION", "NEUTRAL", "BUY", "STRONG", "EXTREME"}

\* C4: for a NaN buy pressure the classifier returns a status that is none
\* of the six buckets.
C4_NaNIsUnknown ==
    (Classified /\ bp.nan) =>
        /\ StatusDisplay(status.sorted) \notin SixBuckets
        /\ status.display \notin SixBuckets

\* the descending order of df by col in which rows with equal keys keep
\* their input order
StableDesc(df, col) ==
    LET n == Len(df)
        p == CHOOSE q \in Permutations(1 .. n) :
                \A i \in 1 .. n - 1 :
                   \/ df[q[i]][col] > df[q[i + 1]][col]
                   \/ df[q[i]][col] = df[q[i + 1]][col] /\ q[i] < q[i + 1]
    IN  [i \in 1 .. n |-> df[p[i]]]

HasStocks(industry_row) ==
    RowsWhere(df_screening_display, "Industry", industry_row.Industry) # <<>>

\* C5: industries are emitted in descending RS rating, equal ratings in
\* input order; each group is the first max_stocks_per_industry stocks of
\* the industry in descending order of the sort column, equal keys in
\* input order.
C5_StableOrder ==
    matrix.done =>
        LET emitted == SelectSeq(StableDesc(df_industry_display, "RS_Rating"),
                                 HasStocks)
        IN  /\ Len(matrix.groups) = Len(emitted)
            /\ \A k \in 1 .. Len(emitted) :
                  /\ matrix.groups[k].Industry = emitted[k].Industry
                  /\ matrix.groups[k].stocks =
                        DfHead(StableDesc(RowsWhere(df_screening_display, "Industry",
                                                    emitted[k].Industry), sort_by),
                               max_stocks_per_industry)

\* C6: every emitted group holds between 1 and max_stocks_per_industry
\* stocks, all of the group's industry, and an industry row is emitted
\* exactly when some stock row has its industry.
C6_GroupBounds ==
    matrix.done =>
        /\ \A k \in 1 .. Len(matrix.groups) :
              LET g == matrix.groups[k]
              IN  /\ Len(g.stocks) >= 1
                  /\ Len(g.stocks) <= max_stocks_per_industry
                  /\ \A j \in 1 .. Len(g.stocks) :
                        /\ g.stocks[j].Industry = g.Industry
                        /\ \E i \in 1 .. Len(df_screening_display) :
                              df_screening_display[i] = g.stocks[j]
        /\ \A i \in 1 .. Len(df_industry_display) :
              (\E k \in 1 .. Len(matrix.groups) :
                   matrix.groups[k].Industry = df_industry_display[i].Industry)
                <=> HasStocks(df_industry_display[i])

\* a table with a truncated group and an omitted industry
C6_Witness ==
    /\ matrix.done
    /\ Len(matrix.groups) = 1
    /\ Len(matrix.groups[1].stocks) = max_stocks_per_industry
    /\ Len(RowsWhere(df_screening_display, "Industry", matrix.groups[1].Industry))
          > max_stocks_per_industry

RawScreening == ReadExcel(book2.sheets["Screening_Results"], 0)

\* the Sector cells of the raw stock rows of an industry, in row order
RawSectorsOf(industry) ==
    LET rows == SelectSeq(IndustrySectorPairs(RawScreening),
                          LAMBDA r : r.Industry = industry)
    IN  [k \in 1 .. Len(rows) |-> rows[k].Sector]

\* the most frequent value of a sequence, the first met among equals
MostFrequentFirstMet(values) ==
    LET top == {i \in 1 .. Len(values) :
                   \A j \in 1 .. Len(values) :
                       Count(values, values[j]) <= Count(values, values[i])}
    IN  values[CHOOSE i \in top : \A j \in top : i <= j]

\* C7: the map gives every industry of the raw stock rows the sector found
\* with it in the greatest number of rows, the first met among equally
\* frequent ones.
C7_ModalSector ==
    (page.loaded.kind = "ok" /\ HasColumn(RawScreening, L_Sector)) =>
        \A k \in 1 .. Len(RawScreening.rows) :
            LET industry == Column(RawScreening, L_Industry)[k]
            IN  RawSectorsOf(industry) # <<>> =>
                  /\ industry \in DOMAIN page.loaded.frames.industry_sector_map
                  /\ page.loaded.frames.industry_sector_map[industry]
                        = MostFrequentFirstMet(RawSectorsOf(industry))

Located == LocateIndustryTable(book1)

ThreeColumns ==
    /\ HasColumn(Located.df, L_Industry)
    /\ HasColumn(Located.df, L_RS_Rating)
    /\ HasColumn(Located.df, L_Buy_Pressure)

\* the cell holds a number or text that reads as one
IsNumeric(cell) ==
    \/ cell.t = "num"
    \/ cell.t = "str" /\ cell.s # <<>> /\ \A i \in 1 .. Len(cell.s) : cell.s[i] \in Digits

NumbersOk(k) ==
    /\ IsNumeric(Column(Located.df, L_RS_Rating)[k])
    /\ IsNumeric(Column(Located.df, L_Buy_Pressure)[k])

IndustryOk(k) == Column(Located.df, L_Industry)[k].t # "nan"

\* the rows k of the located table with Keep(k), as industry records
KeptRows(Keep(_)) ==
    LET idx == SelectSeq([k \in 1 .. Len(Located.df.rows) |-> k], Keep)
    IN  [i \in 1 .. Len(idx) |->
            [Industry |-> Column(Located.df, L_Industry)[idx[i]],
             RS_Rating |-> ToNumeric(Column(Located.df, L_RS_Rating)[idx[i]]),
             Buy_Pressure |-> ToNumeric(Column(Located.df, L_Buy_Pressure)[idx[i]])]]

LoadedTable == Located.kind = "ok" /\ ThreeColumns /\ book2 = GoodBook2

\* C8 as claimed: the qualifying table holds exactly the rows of the located
\* table whose RS_Rating and Buy_Pressure are numeric.
C8_DropsOnlyNonNumeric ==
    (page # NoPage /\ LoadedTable) =>
        /\ page.loaded.kind = "ok"
        /\ page.loaded.frames.df_industry = KeptRows(NumbersOk)

\* C8, amended: the qualifying table holds exactly the rows of the located
\* table whose Industry cell is not empty and whose RS_Rating and
\* Buy_Pressure are numeric, in their order; its length is the number of
\* rows minus the number of rows left out; no cell makes the load raise.
C8_DropsRowsWithAnyMissing ==
    (page # NoPage /\ LoadedTable) =>
        LET n == Len(Located.df.rows)
            out == {k \in 1 .. n : ~(IndustryOk(k) /\ NumbersOk(k))}
        IN  /\ page.loaded.kind = "ok"
            /\ page.errors = <<>>
            /\ page.loaded.frames.df_industry
                  = KeptRows(LAMBDA k : IndustryOk(k) /\ NumbersOk(k))
            /\ Len(page.loaded.frames.df_industry) = n - Cardinality(out)

\* a load that left out one row for its rating and one for its empty
\* Industry cell
C8_Witness ==
    /\ page # NoPage
    /\ LoadedTable
    /\ \E k \in 1 .. Len(Located.df.rows) : IndustryOk(k) /\ ~NumbersOk(k)
    /\ \E k \in 1 .. Len(Located.df.rows) : ~IndustryOk(k) /\ NumbersOk(k)
    /\ Len(page.loaded.frames.df_industry) < Len(Located.df.rows)

\* both files resolve and the industry file name holds a date
Resolvable ==
    /\ \A o \in find_latest_file(dir, PREFIX_INDUSTRY) :
          o.kind = "ok" /\ get_data_date_from_filename(o.path).kind = "ok"
    /\ \A o \in find_latest_file(dir, PREFIX_SCREENING) : o.kind = "ok"

\* C9: a run whose load raises reports the error once and stops: no later
\* stage runs and no loaded data is kept; stages run only on a load that
\* returned; and a rating that is not a number does not make the load fail.
C9_FailFast ==
    /\ page.errors # <<>> =>
          /\ Len(page.errors) = 1
          /\ page.stopped
          /\ page.stages = <<>>
          /\ page.loaded = NotLoaded
    /\ (page # NoPage /\ page.loaded.kind # "ok") => Len(page.errors) = 1
    /\ page.stages # <<>> => (page.loaded.kind = "ok" /\ page.errors = <<>>)
    /\ (fresh /\ page # NoPage /\ Resolvable /\ book1 = BadRowBook1
           /\ book2 = GoodBook2) =>
          (page.errors = <<>> /\ page.stages = Stages)

\* a run in which the industry workbook had no Industry column
C9_Witness ==
    /\ fresh
    /\ Resolvable
    /\ Len(page.errors) = 1
    /\ page.errors[1].kind = "ValueError"
    /\ page.stages = <<>>

\* the sheet load_data reads the industry table from
SheetRead ==
    book1.sheets[IF "Multi_Condition_Passed" \in Range(book1.sheet_names)
                 THEN "Multi_Condition_Passed" ELSE book1.sheet_names[1]]

\* the header is the first row and names a column Industry
HeaderInFirstRow(grid) ==
    Len(grid) >= 1 /\ \E j \in 1 .. Len(grid[1]) : grid[1][j] = L_Industry

\* a later row starts with the cell Industry
HeaderInLaterRow(grid) ==
    \E k \in 2 .. Len(grid) : Len(grid[k]) >= 1 /\ grid[k][1] = L_Industry

SchemaError ==
    /\ Len(page.errors) = 1
    /\ page.errors[1] = [kind |-> "ValueError", msg |-> "sheet_names"]

\* C10: the load fails with the error naming the sheet names exactly when
\* neither layout yields an Industry column.
C10_SchemaErrorIffNoLayout ==
    (page # NoPage /\ book2 = GoodBook2) =>
        (SchemaError <=>
            ~(HeaderInFirstRow(SheetRead) \/ HeaderInLaterRow(SheetRead)))


\* the year, month and day a timestamp token reads
TokenDate(token) ==
    [y |-> DigitsValue(SubSeq(token, 1, 4)),
     m |-> DigitsValue(SubSeq(token, 5, 6)),
     d |-> DigitsValue(SubSeq(token, 7, 8))]

IsCalendarDate(date) ==
    /\ date.y >= 1
    /\ date.m \in 1 .. 12
    /\ date.d \in 1 .. DaysInMonth(date.y, date.m)

\* the calendar day after date
DayAfter(date) ==
    IF date.d < DaysInMonth(date.y, date.m)
    THEN [y |-> date.y, m |-> date.m, d |-> date.d + 1]
    ELSE IF date.m < 12 THEN [y |-> date.y, m |-> date.m + 1, d |-> 1]
    ELSE [y |-> date.y + 1, m |-> 1, d |-> 1]

DateDerived == date_result # NoDate

\* the result is the text of the calendar day whose next day is the token's
IsDayBefore(text, token) ==
    \E y \in {TokenDate(token).y - 1, TokenDate(token).y}, m \in 1 .. 12, d \in 1 .. 31 :
        /\ IsCalendarDate([y |-> y, m |-> m, d |-> d])
        /\ DayAfter([y |-> y, m |-> m, d |-> d]) = TokenDate(token)
        /\ text = FormatDate([y |-> y, m |-> m, d |-> d])

\* C11: the reporting date of a snapshot name is the day before the date its
\* timestamp token reads, as YYYY-MM-DD; a name without a token gives the
\* fixed unknown value; the derivation does not raise.
C11_ReportingDate ==
    DateDerived =>
        /\ date_result.kind = "ok"
        /\ IF DateToken(snapshot_name) = <<>>
           THEN date_result.text = UNKNOWN_DATE
           ELSE IsDayBefore(date_result.text, DateToken(snapshot_name))

\* C11 for the names whose token reads a day of the calendar and that hold
\* no other token
C11_ValidTokens ==
    (/\ DateDerived
     /\ \/ DateToken(snapshot_name) = <<>>
        \/ /\ IsCalendarDate(TokenDate(DateToken(snapshot_name)))
           /\ DateMatchStart(snapshot_name)
                 = Len(snapshot_name) - Len(XLSX) - DateTokenLen + 1)
        => /\ date_result.kind = "ok"
           /\ IF DateToken(snapshot_name) = <<>>
              THEN date_result.text = UNKNOWN_DATE
              ELSE IsDayBefore(date_result.text, DateToken(snapshot_name))


\* the sector the map gives an industry, Unknown when it has none
SectorOf(industry) ==
    IF industry \in DOMAIN sector_map THEN sector_map[industry] ELSE SECTOR_UNKNOWN

RolledUp == rollup.done /\ population.has_rs

\* the rows of a block are in ascending rating, NaN ratings last
AscendingRatings(rows) ==
    \A i \in 1 .. Len(rows) - 1 :
        \/ rows[i + 1].RS_Rating.nan
        \/ ~rows[i].RS_Rating.nan /\ rows[i].RS_Rating.v <= rows[i + 1].RS_Rating.v

NewerSnapshotPresent ==
    \E f \in dir :
        /\ GlobMatches(f, PREFIX_INDUSTRY)
        /\ DateToken(f) # <<>>
        /\ StrLess(DateToken(cache.file1), DateToken(f))

\* C13: while the cache holds a load it is not replaced, only cleared, and
\* every run of the script shows exactly the cached load (files, date and
\* tables), whatever has arrived in DATA_DIR since.
C13_Memoized ==
    [][cache.kind = "ok" =>
          /\ cache' \in {cache, NotLoaded}
          /\ (last_run' # last_run \/ page' # page) => page'.loaded = cache]_vars

\* a run served from the cache while DATA_DIR already held a newer snapshot
C13_Witness ==
    /\ cache.kind = "ok"
    /\ last_run = [hit |-> TRUE, dir |-> dir]
    /\ page.loaded = cache
    /\ NewerSnapshotPresent


\* the Full_Results sheet is missing, or its header lacks one of the three
\* expected columns
FullResultsIncomplete ==
    \/ "Full_Results" \notin Range(book1.sheet_names)
    \/ LET grid == book1.sheets["Full_Results"]
       IN  \E label \in {L_Industry, L_RS_Rating, L_Buy_Pressure} :
              \/ grid = <<>>
              \/ \A j \in 1 .. Len(grid[1]) : grid[1][j] # label

\* C14: when the Full_Results sheet or one of its columns Industry,
\* RS_Rating, Buy_Pressure is missing, the load returns without an error and
\* its full population is the qualifying table.
C14_FallsBackToQualifying ==
    (page # NoPage /\ LoadedTable /\ FullResultsIncomplete) =>
        /\ page.loaded.kind = "ok"
        /\ page.errors = <<>>
        /\ page.loaded.frames.df_all_industry.rows = page.loaded.frames.df_industry
        /\ page.loaded.frames.df_all_industry.has_rs


\* the columns the claim describes: the technical scores present, descending,
\* and under each the fundamental scores present with it, descending
PresentColumns ==
    LET RECURSIVE Cols(_)
        Cols(ts_values) ==
            IF ts_values = <<>> THEN <<>>
            ELSE LET ts == Head(ts_values)
                     fs == SortedReverse({f.v : f \in FsFloats(check_stocks, ts)})
                 IN  [i \in 1 .. Len(fs) |-> <<ts, fs[i]>>] \o Cols(Tail(ts_values))
    IN  Cols(TsValues(check_stocks))

\* C15: the table is rendered; its columns are the (technical score,
\* fundamental score) pairs present, both descending; every row has one cell
\* per column; a cell holds exactly the stocks of its industry and pair, in
\* descending buy pressure, and is empty when there is none.
C15_CrossTab ==
    crosstab.done =>
        /\ crosstab.kind = "ok"
        /\ crosstab.columns = PresentColumns
        /\ Len(crosstab.rows) = Len(check_rows)
        /\ \A i \in 1 .. Len(crosstab.rows) :
              LET row == crosstab.rows[i]
              IN  /\ row.Industry = check_rows[i]
                  /\ Len(row.cells) = Len(crosstab.columns)
                  /\ \A j \in 1 .. Len(row.cells) :
                        LET cell == row.cells[j]
                            col == crosstab.columns[j]
                        IN  /\ \A k \in 1 .. Len(check_stocks) :
                                  (\E m \in 1 .. Len(cell) : cell[m] = check_stocks[k])
                                    <=> /\ check_stocks[k].Industry = row.Industry
                                        /\ check_stocks[k].Technical_Score = col[1]
                                        /\ check_stocks[k].Fundamental_Score = Num(col[2])
                            /\ \A m \in 1 .. Len(cell) - 1 :
                                  cell[m].Buy_Pressure >= cell[m + 1].Buy_Pressure

=============================================================================
